---- MODULE Spec2Model ----
(***************************************************************************)
(* Storage and upload core of app.py: the JSONL record store guarded by a  *)
(* file lock (load_all / write_all), the page and card repository built on *)
(* it, the upload naming discipline, and the admin handlers that compose   *)
(* them, run by several worker processes.                                  *)
(*                                                                         *)
(* File names and file-store lines are sequences of one-character strings, *)
(* so that rpartition, lower, strip and the "_<i>" suffix are computed.    *)
(***************************************************************************)
EXTENDS Integers, Sequences, FiniteSets, TLC

VARIABLES
    store,      \* submissions.csv: [exists, lines]
    lock,       \* holder of submissions.csv.lock, or Free
    disk,       \* uploads dir: [dirs: set of ids, files: set of <<id, name>>]
    pc,         \* per process: position in the running handler
    req,        \* per process: the request being handled
    rows,       \* per process: the list load_all returned, as edited by the caller
    rec,        \* per process: the page/card dict the handler works on
    todo,       \* per process: uploaded files of the request not yet processed
    cand,       \* per process: unique_filename's locals [name, i]
    last,       \* per process: the last finished request and what it returned
    flashes,    \* per process: rejection notices flashed by the running request
    nreq,       \* requests started so far
    now,        \* the clock read by utc_now
    polls,      \* per process: failed polls of the lock in the current acquire
    committed,  \* history: rows of the last write_all that released the lock
    pin,        \* pure-function checks: the input drawn
    pout        \* pure-function checks: the result computed

vars == <<store, lock, disk, pc, req, rows, rec, todo, cand, last, flashes,
          nreq, now, polls, committed, pin, pout>>

-----------------------------------------------------------------------------
(* Bounds of the model *)

\* requests the workers may start in all
MaxReqs == 2
\* failed polls counted per acquire
MaxPolls == 3
\* polls after which a bounded acquire would have to have given up
WaitLimit == 2
\* files in the folder unique_filename is applied to
MaxFolder == 3
\* lines of a store file load_all is applied to
MaxLines == 3

-----------------------------------------------------------------------------
(* Characters and names *)

Free == "free"
None == "None"

UPPER == <<"A","B","C","D","E","F","G","H","I","J","K","L","M",
           "N","O","P","Q","R","S","T","U","V","W","X","Y","Z">>
LOWER == <<"a","b","c","d","e","f","g","h","i","j","k","l","m",
           "n","o","p","q","r","s","t","u","v","w","x","y","z">>
DIGIT == <<"0","1","2","3","4","5","6","7","8","9">>

Range(s) == {s[i] : i \in DOMAIN s}

\* str.lower() on one character
LowerChar(c) ==
    IF \E i \in DOMAIN UPPER : UPPER[i] = c
    THEN LOWER[CHOOSE i \in DOMAIN UPPER : UPPER[i] = c]
    ELSE c

\* str.lower()
Lower(s) == [i \in DOMAIN s |-> LowerChar(s[i])]

\* position of the last "." of s, 0 when there is none
LastDot(s) ==
    IF \E i \in DOMAIN s : s[i] = "."
    THEN CHOOSE i \in DOMAIN s : s[i] = "." /\ \A j \in DOMAIN s : s[j] = "." => j <= i
    ELSE 0

\* filename.rpartition("."): <<base, dot, ext>>; no dot gives <<"", "", filename>>
RPartition(s) ==
    LET d == LastDot(s) IN
    IF d = 0 THEN <<<<>>, <<>>, s>>
    ELSE <<SubSeq(s, 1, d - 1), <<".">>, SubSeq(s, d + 1, Len(s))>>

\* filename.rsplit(".", 1)[-1]: the text after the last ".", the whole name without one
RSplitLast(s) ==
    LET d == LastDot(s) IN
    IF d = 0 THEN s ELSE SubSeq(s, d + 1, Len(s))

\* str(i) for i >= 0
RECURSIVE Decimal(_)
Decimal(i) ==
    IF i < 10 THEN <<DIGIT[i + 1]>>
    ELSE Decimal(i \div 10) \o <<DIGIT[(i % 10) + 1]>>

ALLOWED_EXTENSIONS ==
    { <<"j","p","g">>, <<"j","p","e","g">>, <<"p","n","g">>, <<"g","i","f">>,
      <<"w","e","b","p">>,
      <<"m","p","4">>, <<"w","e","b","m">>, <<"m","o","v">>,
      <<"p","d","f">>, <<"t","x","t">>, <<"c","s","v">>, <<"z","i","p">>,
      <<"7","z">>, <<"r","a","r">>,
      <<"d","o","c">>, <<"d","o","c","x">>, <<"x","l","s">>, <<"x","l","s","x">>,
      <<"p","p","t">>, <<"p","p","t","x">> }

\* allowed_file letting every name through
allowed_file_any(filename) == TRUE

allowed_file(filename) ==
    IF "." \notin Range(filename) THEN FALSE
    ELSE Lower(RSplitLast(filename)) \in ALLOWED_EXTENSIONS

\* the base and ext unique_filename works with (lines 69-71)
UniqueParts(filename) ==
    LET p == RPartition(filename) IN
    IF p[2] = <<>> THEN <<filename, <<>>>> ELSE <<p[1], p[3]>>

\* line 75: the candidate for counter i
Candidate(filename, i) ==
    LET base == UniqueParts(filename)[1]
        ext  == UniqueParts(filename)[2]
    IN  IF ext # <<>>
        THEN base \o <<"_">> \o Decimal(i) \o <<".">> \o ext
        ELSE base \o <<"_">> \o Decimal(i)

\* the while loop of unique_filename over a folder that does not change
RECURSIVE UniqueLoop(_, _, _, _)
UniqueLoop(folder, filename, candidate, i) ==
    IF candidate \in folder
    THEN UniqueLoop(folder, filename, Candidate(filename, i), i + 1)
    ELSE candidate

\* unique_filename trying the candidate for i = 2 only
unique_filename_once(folder, filename) ==
    IF filename \in folder THEN Candidate(filename, 2) ELSE filename

unique_filename(folder, filename) == UniqueLoop(folder, filename, filename, 2)


\* line 83: the digits an id may hold, and the lengths it may have
HexChars == {"0", "1", "2", "3", "4", "5", "6", "7", "8", "9", "a", "b", "c", "d", "e", "f"}
MinIdLen == 8
MaxIdLen == 32

\* sanitize_hex_id without the test of the length
sanitize_hex_id_anylen(value) ==
    IF value = <<>> THEN <<>>
    ELSE IF \A i \in DOMAIN value : Lower(value)[i] \in HexChars THEN Lower(value) ELSE <<>>

\* sanitize_hex_id returning value[1:] of an accepted id
sanitize_hex_id_slice(value) ==
    IF value = <<>> THEN <<>>
    ELSE IF /\ \A i \in DOMAIN value : Lower(value)[i] \in HexChars
            /\ MinIdLen <= Len(value) /\ Len(value) <= MaxIdLen
         THEN Tail(Lower(value)) ELSE <<>>

\* lines 79-85, the empty string being <<>>
sanitize_hex_id(value) ==
    IF value = <<>> THEN <<>>
    ELSE LET v == Lower(value) IN
         IF /\ \A i \in DOMAIN v : v[i] \in HexChars
            /\ MinIdLen <= Len(v) /\ Len(v) <= MaxIdLen
         THEN v ELSE <<>>

-----------------------------------------------------------------------------
(* werkzeug.utils.secure_filename, as the handlers use it: path separators  *)
(* become spaces, runs of whitespace become one "_", every character        *)
(* outside [A-Za-z0-9_.-] is dropped, leading and trailing "." and "_" are  *)
(* stripped.                                                                *)

SafeChars == Range(UPPER) \cup Range(LOWER) \cup Range(DIGIT) \cup {"_", ".", "-"}

RECURSIVE LStrip(_, _)
LStrip(s, cs) ==
    IF s # <<>> /\ s[1] \in cs THEN LStrip(Tail(s), cs) ELSE s

RECURSIVE RStrip(_, _)
RStrip(s, cs) ==
    IF s # <<>> /\ s[Len(s)] \in cs THEN RStrip(SubSeq(s, 1, Len(s) - 1), cs) ELSE s

Strip(s, cs) == RStrip(LStrip(s, cs), cs)

\* "_".join(s.split()) on a string already stripped of outer whitespace
RECURSIVE JoinWords(_)
JoinWords(s) ==
    IF s = <<>> THEN <<>>
    ELSE IF s[1] = " "
         THEN (IF Len(s) >= 2 /\ s[2] = " " THEN <<>> ELSE <<"_">>) \o JoinWords(Tail(s))
         ELSE <<s[1]>> \o JoinWords(Tail(s))

InSafeChars(c) == c \in SafeChars

secure_filename(filename) ==
    LET spaced == [i \in DOMAIN filename |->
                     IF filename[i] \in {"/", "\\"} THEN " " ELSE filename[i]]
        joined == JoinWords(Strip(spaced, {" "}))
        kept   == SelectSeq(joined, InSafeChars)
    IN  Strip(kept, {".", "_"})

-----------------------------------------------------------------------------
(* Records and the lines of the store file *)

\* lines 23-27 (titles transliterated)
PAGES ==
    << [slug |-> "telegram",  id |-> "a1b2c3d4e5", title |-> "Telegram",
        link_url |-> "https://t.me/numresearch"],
       [slug |-> "analytics", id |-> "b2c3d4e5f6", title |-> "Analytics", link_url |-> ""],
       [slug |-> "course",    id |-> "c3d4e5f607", title |-> "Course",    link_url |-> ""] >>

PageSlugs == {PAGES[i].slug : i \in DOMAIN PAGES}
PageIds == {PAGES[i].id : i \in DOMAIN PAGES}
SECTIONS == {"telegram", "analytics", "course"}

NoRec == [kind |-> "none"]

\* dict.get: None for a missing key
Get(r, k) == IF k \in DOMAIN r THEN r[k] ELSE None

\* r.get("files") or []
FilesOf(r) == IF "files" \in DOMAIN r THEN r.files ELSE <<>>

\* url_for("uploaded_file", item_id=..., filename=...): /uploads/<item_id>/<filename>
url_for(item_id, filename) == [route |-> "uploads", item_id |-> item_id, filename |-> filename]

\* a line of the file: leading/trailing whitespace (pad) around a body that is
\* empty, the JSON text of a value, text that is no JSON, or bytes that are no UTF-8
BlankLine(pad) == [pad |-> pad, k |-> "empty"]
JunkLine(pad) == [pad |-> pad, k |-> "junk"]
BadBytes == [pad |-> FALSE, k |-> "undecodable"]

\* json.dumps(obj, ensure_ascii=False): one line, no surrounding whitespace
json_dumps(obj) == [pad |-> FALSE, k |-> "json", v |-> obj]

\* line.strip()
StripLine(line) == [line EXCEPT !.pad = FALSE]

\* `if not line` after the strip
IsEmptyText(line) == line.k = "empty" /\ ~line.pad

\* json.loads raises on anything that is not a JSON document (whitespace
\* around the document is accepted)
LoadsRaises(line) == line.k # "json"
json_loads(line) == line.v

\* the text decoder of open(path, "r", encoding="utf-8") raises on such a line
DecodeRaises(line) == line.k = "undecodable"

\* lines 453-460: the loop body, over the lines read so far
RECURSIVE ReadLoop(_, _)
ReadLoop(lines, acc) ==
    IF lines = <<>> THEN acc
    ELSE LET line == StripLine(lines[1]) IN
         IF IsEmptyText(line) THEN ReadLoop(Tail(lines), acc)
         ELSE IF LoadsRaises(line) THEN ReadLoop(Tail(lines), acc)
         ELSE ReadLoop(Tail(lines), Append(acc, json_loads(line)))

\* `for line in f` raises UnicodeDecodeError outside the try of line 457
ReadRaises(lines) == \E i \in DOMAIN lines : DecodeRaises(lines[i])

\* lines 468-469
DumpRows(rws) == [i \in DOMAIN rws |-> json_dumps(rws[i])]

\* refresh_file_urls taking ext from the name as it is, without lower()
refresh_file_urls_nolower(item_id, files) ==
    [i \in DOMAIN files |->
        [name |-> files[i].name,
         ext  |-> RSplitLast(files[i].name),
         url  |-> url_for(item_id, files[i].name)]]

\* line 475
HasName(f) == "name" \in DOMAIN f /\ f.name # <<>>

\* lines 471-482
refresh_file_urls(item_id, files) ==
    LET named == SelectSeq(files, HasName) IN
    [i \in DOMAIN named |->
        [name |-> named[i].name,
         ext  |-> IF "." \in Range(named[i].name)
                  THEN Lower(RSplitLast(named[i].name)) ELSE <<>>,
         url  |-> url_for(item_id, named[i].name)]]

\* the entry the handlers append after a save (lines 249-253, 329-333, 395-399)
FileEntry(item_id, filename) ==
    [name |-> filename,
     url  |-> url_for(item_id, filename),
     ext  |-> Lower(RSplitLast(filename))]

IsPage(r, slug) == Get(r, "kind") = "page" /\ Get(r, "slug") = slug
IsCard(r, card_id) == Get(r, "kind") = "card" /\ Get(r, "id") = card_id

\* the first index a scan of the rows stops at, 0 when no row matches
FirstIndex(hits) ==
    IF hits = {} THEN 0 ELSE CHOOSE i \in hits : \A j \in hits : i <= j

\* lines 511-517
get_page(rws, slug) ==
    LET i == FirstIndex({k \in DOMAIN rws : IsPage(rws[k], slug)})
    IN  IF i = 0 THEN NoRec
        ELSE [rws[i] EXCEPT !.files = refresh_file_urls(Get(rws[i], "id"), FilesOf(rws[i]))]

\* r.get("section") or "analytics"
SectionOr(r) ==
    IF Get(r, "section") \in {None, ""} THEN "analytics" ELSE r.section

\* lines 563-569
get_card(rws, card_id) ==
    LET i == FirstIndex({k \in DOMAIN rws : IsCard(rws[k], card_id)})
    IN  IF i = 0 THEN NoRec
        ELSE [rws[i] EXCEPT !.files = refresh_file_urls(Get(rws[i], "id"), FilesOf(rws[i])),
                            !.section = SectionOr(rws[i])]

\* line 561
list_cards(rws) ==
    LET IsListed(r) == Get(r, "kind") = "card" /\ Get(r, "id") \notin {None, ""}
    IN  SelectSeq(rws, IsListed)

\* utc_now's text for second t: fixed width, so that the order of the texts
\* is the order of the times (line 37: no microseconds, always "Z")
IsoText(t) == <<DIGIT[((t \div 10) % 10) + 1], DIGIT[(t % 10) + 1]>>

\* x.get("updated_at", "")
SortKey(x) == IF "updated_at" \in DOMAIN x THEN IsoText(x.updated_at) ELSE <<>>

DigitValue(c) == CHOOSE i \in DOMAIN DIGIT : DIGIT[i] = c

\* a < b for two texts of digits, as Python compares str
TextLess(a, b) ==
    \/ \E i \in 1..Len(a) :
          /\ i <= Len(b)
          /\ DigitValue(a[i]) < DigitValue(b[i])
          /\ \A j \in 1..(i - 1) : a[j] = b[j]
    \/ /\ Len(a) < Len(b)
       /\ \A j \in 1..Len(a) : a[j] = b[j]

Reverse(seq) == [i \in DOMAIN seq |-> seq[Len(seq) + 1 - i]]

\* x put into an ascending list behind every element that is not greater
InsertAsc(acc, x) ==
    LET after == {i \in DOMAIN acc : ~TextLess(SortKey(x), SortKey(acc[i]))}
        k == IF after = {} THEN 0 ELSE CHOOSE i \in after : \A j \in after : j <= i
    IN  SubSeq(acc, 1, k) \o <<x>> \o SubSeq(acc, k + 1, Len(acc))

\* the stable ascending sort of list.sort
RECURSIVE StableAsc(_, _)
StableAsc(acc, seq) ==
    IF seq = <<>> THEN acc ELSE StableAsc(InsertAsc(acc, Head(seq)), Tail(seq))

\* sorted without reverse=True
sorted_ascending(cards) == StableAsc(<<>>, cards)

\* sorted(cards, key=updated_at, reverse=True), lines 122, 140, 345: CPython
\* reverses the list, sorts it ascending and stable, and reverses it again
sorted_reverse(cards) == Reverse(StableAsc(<<>>, Reverse(cards)))

\* lines 136-139, 341-344: the copy of a card a listing shows
ListedCard(c) ==
    [c EXCEPT !.files = refresh_file_urls(Get(c, "id"), FilesOf(c)),
              !.section = SectionOr(c)]

\* lines 134-140, 339-345
cards_listing(rws) ==
    LET cards == list_cards(rws)
    IN  sorted_reverse([i \in DOMAIN cards |-> ListedCard(cards[i])])

\* lines 113-116: the section of index a card goes to
IndexSection(c) == IF SectionOr(c) \in PageSlugs THEN SectionOr(c) ELSE "analytics"

\* lines 104, 111-120: the cards of index's section slug
IndexCards(rws, slug) ==
    LET cards == list_cards(rws)
        InSection(c) == IndexSection(c) = slug
        mine == SelectSeq(cards, InSection)
    IN  sorted_reverse([i \in DOMAIN mine |->
            [mine[i] EXCEPT !.files = refresh_file_urls(Get(mine[i], "id"), FilesOf(mine[i]))]])

\* line 104
EmptySections ==
    [telegram  |-> [page |-> NoRec, cards |-> <<>>],
     analytics |-> [page |-> NoRec, cards |-> <<>>],
     course    |-> [page |-> NoRec, cards |-> <<>>]]

\* upsert_page taking the matching record out and appending the new one
UpsertPageRows_move(rws, slug, new_page) ==
    LET Keep(r) == ~IsPage(r, slug) IN Append(SelectSeq(rws, Keep), new_page)

\* lines 520-527: the list upsert_page hands to write_all
UpsertPageRows(rws, slug, new_page) ==
    LET i == FirstIndex({k \in DOMAIN rws : IsPage(rws[k], slug)})
    IN  IF i = 0 THEN Append(rws, new_page) ELSE [rws EXCEPT ![i] = new_page]

\* upsert_card without the scan for an existing record
UpsertCardRows_append(rws, card_id, card) == Append(rws, card)

\* lines 572-579: the list upsert_card hands to write_all
UpsertCardRows(rws, card_id, card) ==
    LET i == FirstIndex({k \in DOMAIN rws : IsCard(rws[k], card_id)})
    IN  IF i = 0 THEN Append(rws, card) ELSE [rws EXCEPT ![i] = card]

\* the filter with its test misplaced: only the other cards are kept
DeleteCardRows_cardsonly(rws, card_id) ==
    LET Keep(r) == Get(r, "kind") = "card" /\ Get(r, "id") # card_id IN SelectSeq(rws, Keep)

\* line 608
DeleteCardRows(rws, card_id) ==
    LET Keep(r) == ~IsCard(r, card_id) IN SelectSeq(rws, Keep)

\* lines 541, 590
RemoveName(files, safe_name) ==
    LET Keep(f) == ~("name" \in DOMAIN f /\ f.name = safe_name) IN SelectSeq(files, Keep)

\* lines 495-505
SeedPage(p, t) ==
    [kind |-> "page", slug |-> p.slug, id |-> p.id, created_at |-> t, updated_at |-> t,
     title |-> p.title, description |-> "", link_url |-> p.link_url, files |-> <<>>]

\* line 489
ExistingSlugs(rws) ==
    {Get(rws[i], "slug") : i \in {j \in DOMAIN rws :
        Get(rws[j], "kind") = "page" /\ Get(rws[j], "slug") \notin {None, ""}}}

\* lines 492-506: the rows after the loop over PAGES[k..]
RECURSIVE SeedFrom(_, _, _, _)
SeedFrom(rws, existing, k, t) ==
    IF k > Len(PAGES) THEN rws
    ELSE IF PAGES[k].slug \in existing THEN SeedFrom(rws, existing, k + 1, t)
    ELSE SeedFrom(Append(rws, SeedPage(PAGES[k], t)), existing, k + 1, t)

EnsureRows(rws, t) == SeedFrom(rws, ExistingSlugs(rws), 1, t)

\* lines 287-289, 360-362 (the form value already stripped and lowered)
NormalizeSection(s) == IF s \in SECTIONS THEN s ELSE "analytics"

-----------------------------------------------------------------------------
(* The workers and the local state of a request *)

Procs == {"w1", "w2"}

NoForm == [title |-> "", description |-> "", link_url |-> "", section |-> ""]
NoReq == [op |-> "none", ph |-> "", id |-> "", slug |-> "", form |-> NoForm,
          files |-> <<>>, filename |-> <<>>]
NoCand == [orig |-> <<>>, name |-> <<>>, i |-> 0]
NoLast == [op |-> "none", id |-> "", slug |-> "", ret |-> "", arg |-> NoRec,
           out |-> NoRec, rows |-> <<>>, flashes |-> 0]

\* the request-local state of worker p
Local(p) ==
    [pc |-> pc[p], req |-> req[p], rows |-> rows[p], rec |-> rec[p], todo |-> todo[p],
     cand |-> cand[p], flashes |-> flashes[p], last |-> last[p]]

SetLocal(p, L) ==
    /\ pc' = [pc EXCEPT ![p] = L.pc]
    /\ req' = [req EXCEPT ![p] = L.req]
    /\ rows' = [rows EXCEPT ![p] = L.rows]
    /\ rec' = [rec EXCEPT ![p] = L.rec]
    /\ todo' = [todo EXCEPT ![p] = L.todo]
    /\ cand' = [cand EXCEPT ![p] = L.cand]
    /\ flashes' = [flashes EXCEPT ![p] = L.flashes]
    /\ last' = [last EXCEPT ![p] = L.last]

\* the request ends: what it returned (ret), the record it handed to upsert
\* (arg), the record or rows it read (out, rws)
Fin(L, ret, arg, out, rws) ==
    [pc |-> "idle", req |-> NoReq, rows |-> <<>>, rec |-> NoRec, todo |-> <<>>,
     cand |-> NoCand, flashes |-> 0,
     last |-> [op |-> L.req.op, id |-> L.req.id, slug |-> L.req.slug, ret |-> ret,
               arg |-> arg, out |-> out, rows |-> rws, flashes |-> L.flashes]]

PageOps == {"admin_page_edit", "admin_delete_file"}
CardUpsertOps == {"admin_cards", "admin_card_edit", "admin_delete_card_file"}

\* the upload folder the handler works in: uploads/<page["id"]> (line 233),
\* uploads/<card_id> (lines 313, 379, 594), uploads/<item_id> (line 545)
FolderOf(L) == IF L.req.op = "admin_page_edit" THEN L.rec.id ELSE L.req.id

\* the head of the upload loop (lines 236-245, 316-325, 382-391): skip a file
\* without a name or whose secured name is empty, reject a disallowed extension
\* with a flash, and stop at the first file to save; after the last file the
\* handler calls upsert
RECURSIVE NextFile(_)
NextFile(L) ==
    IF L.todo = <<>> THEN [L EXCEPT !.pc = "load_exists", !.req.ph = "upsert"]
    ELSE LET original == Head(L.todo)
             filename == secure_filename(original)
         IN  IF original = <<>> \/ filename = <<>>
             THEN NextFile([L EXCEPT !.todo = Tail(@)])
             ELSE IF ~allowed_file(filename)
             THEN NextFile([L EXCEPT !.todo = Tail(@), !.flashes = @ + 1])
             ELSE [L EXCEPT !.pc = "unique_check",
                            !.cand = [orig |-> filename, name |-> filename, i |-> 2]]

\* the form applied without a new updated_at
EditRec_nostamp(r, form, t, withSection) ==
    LET e == [r EXCEPT !.title = form.title, !.description = form.description,
                       !.link_url = form.link_url]
    IN  IF withSection THEN [e EXCEPT !.section = NormalizeSection(form.section)] ELSE e

\* lines 227-230, 373-377: the form applied to the record read
EditRec(r, form, t, withSection) ==
    LET e == [r EXCEPT !.title = form.title, !.description = form.description,
                       !.link_url = form.link_url, !.updated_at = t]
    IN  IF withSection THEN [e EXCEPT !.section = NormalizeSection(form.section)] ELSE e

\* lines 301-311
NewCard(card_id, form, t) ==
    [kind |-> "card", id |-> card_id, section |-> NormalizeSection(form.section),
     created_at |-> t, updated_at |-> t, title |-> form.title,
     description |-> form.description, link_url |-> form.link_url, files |-> <<>>]

\* what the caller of load_all does with the rows it returned, up to its next
\* access to the store or the disk
AfterLoad(L, rws, t) ==
    LET op == L.req.op IN
    CASE op = "ensure_pages_exist" ->
           LET new == EnsureRows(rws, t) IN
           IF new = rws THEN Fin(L, "None", NoRec, NoRec, <<>>)
           ELSE [L EXCEPT !.rows = new, !.pc = "write_acquire"]
      [] op = "load_all" -> Fin(L, "rows", NoRec, NoRec, rws)
      [] op \in {"cards_list", "admin_cards_get"} ->
           Fin(L, "200", NoRec, NoRec, cards_listing(rws))
      [] op = "index" /\ L.req.ph \in {"page1", "page2", "page3"} ->
           LET k == CASE L.req.ph = "page1" -> 1 [] L.req.ph = "page2" -> 2 [] OTHER -> 3
               pg == get_page(rws, PAGES[k].slug)
           IN  [L EXCEPT !.rec = IF pg = NoRec THEN @
                                  ELSE [@ EXCEPT ![PAGES[k].slug].page = pg],
                         !.req.ph = CASE k = 1 -> "page2" [] k = 2 -> "page3"
                                      [] OTHER -> "cards",
                         !.pc = "load_exists"]
      [] op = "index" /\ L.req.ph = "cards" ->
           Fin(L, "200", NoRec,
               [s \in PageSlugs |-> [L.rec[s] EXCEPT !.cards = IndexCards(rws, s)]],
               <<>>)
      [] op = "card_view" ->
           LET card == get_card(rws, L.req.id) IN
           IF card = NoRec THEN Fin(L, "404", NoRec, NoRec, <<>>)
           ELSE Fin(L, "200", NoRec, card, <<>>)
      [] op = "page_view" ->
           LET page == get_page(rws, L.req.slug) IN
           IF page = NoRec THEN Fin(L, "404", NoRec, NoRec, <<>>)
           ELSE Fin(L, "200", NoRec, page, <<>>)
      [] op = "admin_delete_card" ->
           LET new_rows == DeleteCardRows(rws, L.req.id) IN
           IF Len(new_rows) = Len(rws) THEN Fin(L, "False", NoRec, NoRec, <<>>)
           ELSE [L EXCEPT !.rows = new_rows, !.pc = "write_acquire"]
      [] op \in CardUpsertOps /\ L.req.ph = "upsert" ->
           [L EXCEPT !.rows = UpsertCardRows(rws, L.req.id, L.rec), !.pc = "write_acquire"]
      [] op \in PageOps /\ L.req.ph = "upsert" ->
           [L EXCEPT !.rows = UpsertPageRows(rws, L.req.slug, L.rec), !.pc = "write_acquire"]
      [] op = "admin_card_edit" /\ L.req.ph = "get" ->
           LET card == get_card(rws, L.req.id) IN
           IF card = NoRec THEN Fin(L, "404", NoRec, NoRec, <<>>)
           ELSE IF L.req.form.title = "" THEN Fin(L, "redirect", NoRec, NoRec, <<>>)
           ELSE [L EXCEPT !.rows = rws, !.rec = EditRec(card, L.req.form, t, TRUE),
                          !.pc = "makedirs"]
      [] op = "admin_page_edit" /\ L.req.ph = "get" ->
           LET page == get_page(rws, L.req.slug) IN
           IF page = NoRec THEN Fin(L, "404", NoRec, NoRec, <<>>)
           ELSE IF L.req.form.title = "" THEN Fin(L, "redirect", NoRec, NoRec, <<>>)
           ELSE [L EXCEPT !.rows = rws, !.rec = EditRec(page, L.req.form, t, FALSE),
                          !.pc = "makedirs"]
      [] op \in {"admin_delete_card_file", "admin_delete_file"} /\ L.req.ph = "get" ->
           LET safe_name == secure_filename(L.req.filename)
               r == IF op = "admin_delete_file" THEN get_page(rws, L.req.slug)
                    ELSE get_card(rws, L.req.id)
           IN  IF r = NoRec THEN Fin(L, "False", NoRec, NoRec, <<>>)
               ELSE IF Len(RemoveName(FilesOf(r), safe_name)) = Len(FilesOf(r))
               THEN Fin(L, "False", NoRec, NoRec, <<>>)
               ELSE [L EXCEPT !.rows = rws, !.rec = r, !.pc = "remove_file"]

\* what the caller of write_all does once it returned
AfterWrite(L) ==
    LET op == L.req.op IN
    CASE op = "ensure_pages_exist" -> Fin(L, "None", NoRec, NoRec, <<>>)
      [] op = "admin_delete_card" -> [L EXCEPT !.pc = "rmtree"]
      [] OTHER -> Fin(L, "True", L.rec, NoRec, <<>>)

-----------------------------------------------------------------------------
(* load_all, lines 445-461 *)

\* lines 447-448: a missing file is an empty list, without the lock
LoadExists(p) ==
    /\ pc[p] = "load_exists"
    /\ IF store.exists
       THEN SetLocal(p, [Local(p) EXCEPT !.pc = "load_acquire"])
       ELSE SetLocal(p, AfterLoad(Local(p), <<>>, now))
    /\ UNCHANGED <<store, lock, disk, nreq, now, polls, committed, pin, pout>>

\* load_all reading without taking the lock
LoadAcquire_nolock(p) ==
    /\ pc[p] = "load_acquire"
    /\ lock' = lock
    /\ polls' = [polls EXCEPT ![p] = 0]
    /\ SetLocal(p, [Local(p) EXCEPT !.pc = "load_read"])
    /\ UNCHANGED <<store, disk, nreq, now, committed, pin, pout>>

\* lines 450-451: `with lock` blocks until the lock file is free (FileLock's
\* default timeout is -1)
LoadAcquire(p) ==
    /\ pc[p] = "load_acquire"
    /\ lock = Free
    /\ lock' = p
    /\ polls' = [polls EXCEPT ![p] = 0]
    /\ SetLocal(p, [Local(p) EXCEPT !.pc = "load_read"])
    /\ UNCHANGED <<store, disk, nreq, now, committed, pin, pout>>

\* lines 452-460: the file is opened and read under the lock
LoadRead(p) ==
    /\ pc[p] = "load_read"
    /\ IF ReadRaises(store.lines)
       THEN SetLocal(p, [Local(p) EXCEPT !.pc = "load_raise"])
       ELSE SetLocal(p, [Local(p) EXCEPT !.pc = "load_unlock",
                                         !.rows = ReadLoop(store.lines, <<>>)])
    /\ UNCHANGED <<store, lock, disk, nreq, now, polls, committed, pin, pout>>

\* line 461: the lock is released and the rows go to the caller
LoadUnlock(p) ==
    /\ pc[p] = "load_unlock"
    /\ lock' = IF lock = p THEN Free ELSE lock
    /\ SetLocal(p, AfterLoad(Local(p), rows[p], now))
    /\ UNCHANGED <<store, disk, nreq, now, polls, committed, pin, pout>>

\* the decoder's exception leaves both `with` blocks: the lock is released and
\* the request fails
LoadRaise(p) ==
    /\ pc[p] = "load_raise"
    /\ lock' = IF lock = p THEN Free ELSE lock
    /\ SetLocal(p, Fin(Local(p), "UnicodeDecodeError", NoRec, NoRec, <<>>))
    /\ UNCHANGED <<store, disk, nreq, now, polls, committed, pin, pout>>

\* one failed poll of the lock by an acquire that waits (FileLock polls the
\* lock file, sleeping between polls; with timeout -1 it never gives up)
PollFail(p) ==
    /\ pc[p] \in {"load_acquire", "write_acquire"}
    /\ lock # Free
    /\ polls[p] < MaxPolls
    /\ polls' = [polls EXCEPT ![p] = @ + 1]
    /\ UNCHANGED <<store, lock, disk, pc, req, rows, rec, todo, cand, last, flashes,
                   nreq, now, committed, pin, pout>>

-----------------------------------------------------------------------------
(* write_all, lines 463-469 *)

\* lines 465-466
WriteAcquire(p) ==
    /\ pc[p] = "write_acquire"
    /\ lock = Free
    /\ lock' = p
    /\ polls' = [polls EXCEPT ![p] = 0]
    /\ SetLocal(p, [Local(p) EXCEPT !.pc = "write_open"])
    /\ UNCHANGED <<store, disk, nreq, now, committed, pin, pout>>

\* the file opened in append mode instead of being truncated
WriteOpen_append(p) ==
    /\ pc[p] = "write_open"
    /\ store' = [store EXCEPT !.exists = TRUE]
    /\ SetLocal(p, [Local(p) EXCEPT !.pc = "write_dump"])
    /\ UNCHANGED <<lock, disk, nreq, now, polls, committed, pin, pout>>

\* line 467: open(path, "w") creates or truncates the file
WriteOpen(p) ==
    /\ pc[p] = "write_open"
    /\ store' = [exists |-> TRUE, lines |-> <<>>]
    /\ SetLocal(p, [Local(p) EXCEPT !.pc = "write_dump"])
    /\ UNCHANGED <<lock, disk, nreq, now, polls, committed, pin, pout>>

\* lines 468-469: every row is written, one line each, and the file closed
WriteDump(p) ==
    /\ pc[p] = "write_dump"
    /\ store' = [store EXCEPT !.lines = @ \o DumpRows(rows[p])]
    /\ SetLocal(p, [Local(p) EXCEPT !.pc = "write_unlock"])
    /\ UNCHANGED <<lock, disk, nreq, now, polls, committed, pin, pout>>

\* the lock is released and write_all returns to its caller
WriteUnlock(p) ==
    /\ pc[p] = "write_unlock"
    /\ lock' = IF lock = p THEN Free ELSE lock
    /\ committed' = ReadLoop(store.lines, <<>>)
    /\ SetLocal(p, AfterWrite(Local(p)))
    /\ UNCHANGED <<store, disk, nreq, now, polls, pin, pout>>

\* lines 468-469: f.write raises (OSError: disk full, I/O error) after some of
\* the rows were written
WriteFail(p) ==
    /\ pc[p] = "write_dump"
    /\ \E k \in 0..(Len(rows[p]) - 1) :
          store' = [store EXCEPT !.lines = @ \o SubSeq(DumpRows(rows[p]), 1, k)]
    /\ SetLocal(p, [Local(p) EXCEPT !.pc = "write_raise"])
    /\ UNCHANGED <<lock, disk, nreq, now, polls, committed, pin, pout>>

\* the exception passing through `with lock` without the release
WriteRaise_keeplock(p) ==
    /\ pc[p] = "write_raise"
    /\ committed' = ReadLoop(store.lines, <<>>)
    /\ SetLocal(p, Fin(Local(p), "OSError", NoRec, NoRec, <<>>))
    /\ UNCHANGED <<store, lock, disk, nreq, now, polls, pin, pout>>

\* lines 466-469: the exception leaves both `with` blocks: the file is closed,
\* the lock released, and the caller gets the exception
WriteRaise(p) ==
    /\ pc[p] = "write_raise"
    /\ lock' = IF lock = p THEN Free ELSE lock
    /\ committed' = ReadLoop(store.lines, <<>>)
    /\ SetLocal(p, Fin(Local(p), "OSError", NoRec, NoRec, <<>>))
    /\ UNCHANGED <<store, disk, nreq, now, polls, pin, pout>>

-----------------------------------------------------------------------------
(* Steps on the uploads directory *)

\* lines 234, 314, 380: os.makedirs(item_folder, exist_ok=True), then the
\* upload loop starts
Makedirs(p) ==
    /\ pc[p] = "makedirs"
    /\ disk' = [disk EXCEPT !.dirs = @ \cup {FolderOf(Local(p))}]
    /\ SetLocal(p, NextFile(Local(p)))
    /\ UNCHANGED <<store, lock, nreq, now, polls, committed, pin, pout>>

\* lines 74-76: one test of os.path.exists by unique_filename's loop
UniqueCheck(p) ==
    /\ pc[p] = "unique_check"
    /\ IF <<FolderOf(Local(p)), cand[p].name>> \in disk.files
       THEN SetLocal(p, [Local(p) EXCEPT
                !.cand = [orig |-> cand[p].orig,
                          name |-> Candidate(cand[p].orig, cand[p].i),
                          i |-> cand[p].i + 1]])
       ELSE SetLocal(p, [Local(p) EXCEPT !.pc = "save"])
    /\ UNCHANGED <<store, lock, disk, nreq, now, polls, committed, pin, pout>>

\* lines 248-253, 328-333, 394-399: f.save writes (or overwrites) the file, the
\* entry is appended and the loop goes on; without the folder f.save raises
Save(p) ==
    /\ pc[p] = "save"
    /\ LET L == Local(p)
           folder == FolderOf(L)
       IN  IF folder \notin disk.dirs
           THEN /\ SetLocal(p, Fin(L, "FileNotFoundError", NoRec, NoRec, <<>>))
                /\ disk' = disk
           ELSE /\ disk' = [disk EXCEPT !.files = @ \cup {<<folder, cand[p].name>>}]
                /\ SetLocal(p, NextFile([L EXCEPT
                       !.rec.files = Append(FilesOf(L.rec), FileEntry(folder, cand[p].name)),
                       !.todo = Tail(@),
                       !.cand = NoCand]))
    /\ UNCHANGED <<store, lock, nreq, now, polls, committed, pin, pout>>

\* lines 545-554, 594-603: the physical file is removed when it exists, the
\* record gets the shortened list and a new updated_at, and upsert follows
RemoveFile(p) ==
    /\ pc[p] = "remove_file"
    /\ LET L == Local(p)
           safe_name == secure_filename(L.req.filename)
       IN  /\ disk' = [disk EXCEPT !.files = @ \ {<<L.req.id, safe_name>>}]
           /\ SetLocal(p, [L EXCEPT
                  !.rec.files = RemoveName(FilesOf(L.rec), safe_name),
                  !.rec.updated_at = now,
                  !.pc = "load_exists",
                  !.req.ph = "upsert"])
    /\ UNCHANGED <<store, lock, nreq, now, polls, committed, pin, pout>>

\* os.remove failing with the request given up: nothing persisted, False
RemoveFileFails_abort(p) ==
    /\ pc[p] = "remove_file"
    /\ <<req[p].id, secure_filename(req[p].filename)>> \in disk.files
    /\ SetLocal(p, Fin(Local(p), "False", NoRec, NoRec, <<>>))
    /\ UNCHANGED <<store, lock, disk, nreq, now, polls, committed, pin, pout>>

\* lines 546-550, 595-599: os.remove raises (the file stays), the exception is
\* swallowed, and the shortened list is persisted all the same
RemoveFileFails(p) ==
    /\ pc[p] = "remove_file"
    /\ LET L == Local(p)
           safe_name == secure_filename(L.req.filename)
       IN  /\ <<L.req.id, safe_name>> \in disk.files
           /\ SetLocal(p, [L EXCEPT
                  !.rec.files = RemoveName(FilesOf(L.rec), safe_name),
                  !.rec.updated_at = now,
                  !.pc = "load_exists",
                  !.req.ph = "upsert"])
    /\ UNCHANGED <<store, lock, disk, nreq, now, polls, committed, pin, pout>>

\* delete_card leaving the upload folder in place
Rmtree_skip(p) ==
    /\ pc[p] = "rmtree"
    /\ disk' = disk
    /\ SetLocal(p, Fin(Local(p), "True", NoRec, NoRec, <<>>))
    /\ UNCHANGED <<store, lock, nreq, now, polls, committed, pin, pout>>

\* lines 613-620: shutil.rmtree of the card's folder, then True
Rmtree(p) ==
    /\ pc[p] = "rmtree"
    /\ LET L == Local(p) IN
       /\ disk' = [dirs |-> disk.dirs \ {L.req.id},
                   files |-> {f \in disk.files : f[1] # L.req.id}]
       /\ SetLocal(p, Fin(L, "True", NoRec, NoRec, <<>>))
    /\ UNCHANGED <<store, lock, nreq, now, polls, committed, pin, pout>>

-----------------------------------------------------------------------------
(* The requests *)

\* a request starts: the handler runs up to its first access to the store or disk
Begin(p, L) ==
    /\ pc[p] = "idle"
    /\ nreq' = nreq + 1
    /\ SetLocal(p, L)
    /\ UNCHANGED <<store, lock, disk, now, polls, committed, pin, pout>>

Request(p, op, id, slug, form, files, filename) ==
    [Local(p) EXCEPT !.pc = "load_exists",
                     !.req = [op |-> op, ph |-> "get", id |-> id, slug |-> slug,
                              form |-> form, files |-> files, filename |-> filename],
                     !.todo = files]

\* lines 96-97: create_app seeds the pages before the worker serves anything
Boot(p) ==
    /\ pc[p] = "boot"
    /\ SetLocal(p, Request(p, "ensure_pages_exist", "", "", NoForm, <<>>, <<>>))
    /\ UNCHANGED <<store, lock, disk, nreq, now, polls, committed, pin, pout>>

\* lines 143-151
CardView(p, card_id) ==
    Begin(p, Request(p, "card_view", card_id, "", NoForm, <<>>, <<>>))

\* lines 124-130
PageView(p, slug) ==
    Begin(p, Request(p, "page_view", "", slug, NoForm, <<>>, <<>>))

\* lines 286-314: POST /admin/cards with the id new_id drew
AdminCards(p, card_id, form, files) ==
    LET L == Request(p, "admin_cards", card_id, "", form, files, <<>>) IN
    Begin(p, IF form.title = "" THEN Fin(L, "redirect", NoRec, NoRec, <<>>)
             ELSE [L EXCEPT !.rec = NewCard(card_id, form, now), !.pc = "makedirs"])

\* lines 351-355: POST /admin/card/<card_id>
AdminCardEdit(p, card_id, form, files) ==
    Begin(p, Request(p, "admin_card_edit", card_id, "", form, files, <<>>))

\* lines 211-213: POST /admin/page/<slug>
AdminPageEdit(p, slug, form, files) ==
    Begin(p, Request(p, "admin_page_edit", "", slug, form, files, <<>>))

\* lines 411-416, 583-586
AdminDeleteCardFile(p, card_id, filename) ==
    LET L == Request(p, "admin_delete_card_file", card_id, "", NoForm, <<>>, filename) IN
    Begin(p, IF secure_filename(filename) = <<>> THEN Fin(L, "False", NoRec, NoRec, <<>>)
             ELSE L)

\* lines 265-276, 531-536
AdminDeleteFile(p, item_id, slug, filename) ==
    LET L == Request(p, "admin_delete_file", item_id, slug, NoForm, <<>>, filename) IN
    Begin(p, IF filename = <<>> \/ slug = "" THEN Fin(L, "redirect", NoRec, NoRec, <<>>)
             ELSE IF secure_filename(filename) = <<>>
             THEN Fin(L, "False", NoRec, NoRec, <<>>)
             ELSE L)

\* lines 422-426, 607
AdminDeleteCard(p, card_id) ==
    Begin(p, Request(p, "admin_delete_card", card_id, "", NoForm, <<>>, <<>>))

\* lines 132-141
CardsList(p) ==
    Begin(p, Request(p, "cards_list", "", "", NoForm, <<>>, <<>>))

\* lines 285-286, 339-347: GET /admin/cards
AdminCardsGet(p) ==
    Begin(p, Request(p, "admin_cards_get", "", "", NoForm, <<>>, <<>>))

\* lines 102-122: one get_page per page, then list_cards
Index(p) ==
    Begin(p, [Request(p, "index", "", "", NoForm, <<>>, <<>>) EXCEPT
                 !.req.ph = "page1", !.rec = EmptySections])

\* upsert_card(app, card_id, card) called as the handlers call it (lines 335,
\* 401, 604)
CallUpsertCard(p, card_id, card) ==
    Begin(p, [Request(p, "admin_cards", card_id, "", NoForm, <<>>, <<>>) EXCEPT
                 !.req.ph = "upsert", !.rec = card])

\* upsert_page(app, slug, page) called as the handlers call it (lines 256, 555)
CallUpsertPage(p, slug, page) ==
    Begin(p, [Request(p, "admin_page_edit", "", slug, NoForm, <<>>, <<>>) EXCEPT
                 !.req.ph = "upsert", !.rec = page])

\* a direct call of load_all
CallLoadAll(p) ==
    Begin(p, Request(p, "load_all", "", "", NoForm, <<>>, <<>>))

\* the steps of load_all and write_all as the program takes them
StoreStep(p) ==
    \/ LoadExists(p)
    \/ LoadAcquire(p)
    \/ LoadRead(p)
    \/ LoadUnlock(p)
    \/ WriteAcquire(p)
    \/ WriteOpen(p)
    \/ WriteDump(p)
    \/ WriteUnlock(p)

DiskStep(p) ==
    \/ Makedirs(p)
    \/ UniqueCheck(p)
    \/ Save(p)
    \/ RemoveFile(p)
    \/ Rmtree(p)

-----------------------------------------------------------------------------
(* The workers serving admin and public requests concurrently *)

CardIds == {"c0ffee0001", "c0ffee0002"}
FormA == [title |-> "A", description |-> "", link_url |-> "", section |-> "course"]
FormB == [title |-> "B", description |-> "text", link_url |-> "https://example.org",
          section |-> "video"]
FormNoTitle == [title |-> "", description |-> "text", link_url |-> "", section |-> ""]
NamePng == <<"a", ".", "P", "N", "G">>
NameExe == <<"a", ".", "e", "x", "e">>

Init ==
    /\ store = [exists |-> FALSE, lines |-> <<>>]
    /\ lock = Free
    /\ disk = [dirs |-> {}, files |-> {}]
    /\ pc = [p \in Procs |-> "boot"]
    /\ req = [p \in Procs |-> NoReq]
    /\ rows = [p \in Procs |-> <<>>]
    /\ rec = [p \in Procs |-> NoRec]
    /\ todo = [p \in Procs |-> <<>>]
    /\ cand = [p \in Procs |-> NoCand]
    /\ last = [p \in Procs |-> NoLast]
    /\ flashes = [p \in Procs |-> 0]
    /\ nreq = 0
    /\ now = 0
    /\ polls = [p \in Procs |-> 0]
    /\ committed = <<>>
    /\ pin = NoCand
    /\ pout = NoCand

\* the requests of two admin sessions and a visitor
Requests(p) ==
    \/ \E id \in CardIds : AdminCards(p, id, FormA, <<NamePng>>)
    \/ \E id \in CardIds : AdminCardEdit(p, id, FormB, <<NamePng>>)
    \/ AdminPageEdit(p, "telegram", FormB, <<NamePng>>)
    \/ \E id \in CardIds : AdminDeleteCard(p, id)
    \/ \E id \in CardIds : AdminDeleteCardFile(p, id, NamePng)
    \/ AdminDeleteFile(p, "a1b2c3d4e5", "telegram", NamePng)
    \/ \E id \in CardIds : CardView(p, id)

Next ==
    \E p \in Procs :
        \/ Boot(p)
        \/ StoreStep(p)
        \/ DiskStep(p)
        \/ nreq < MaxReqs /\ Requests(p)

Spec == Init /\ [][Next]_vars

-----------------------------------------------------------------------------
(* Properties of the store under concurrent workers *)

StoreRows == ReadLoop(store.lines, <<>>)

HasCard(rws, card_id) == \E i \in DOMAIN rws : IsCard(rws[i], card_id)
HasPage(rws, slug) == \E i \in DOMAIN rws : IsPage(rws[i], slug)

\* the worker has finished ensure_pages_exist
Booted(p) == pc[p] # "boot" /\ req[p].op # "ensure_pages_exist"

\* inside the file-read section of load_all or the rewrite section of write_all
InStore(p) ==
    pc[p] \in {"load_read", "load_unlock", "load_raise",
               "write_open", "write_dump", "write_unlock"}

\* C1: in every reachable state the store holds at most one page record per
\* slug and at most one card record per id.
C1_UniqueKeys ==
    \A i, j \in DOMAIN StoreRows :
        i # j =>
            /\ ~(Get(StoreRows[i], "kind") = "page" /\ Get(StoreRows[j], "kind") = "page"
                 /\ Get(StoreRows[i], "slug") = Get(StoreRows[j], "slug"))
            /\ ~(Get(StoreRows[i], "kind") = "card" /\ Get(StoreRows[j], "kind") = "card"
                 /\ Get(StoreRows[i], "id") = Get(StoreRows[j], "id"))

\* both workers have seeded, a card was created and then upserted again under
\* the same id, and the store holds the three pages and that card
C1_Witness ==
    /\ \A p \in Procs : Booted(p)
    /\ \E p \in Procs :
        /\ last[p].op = "admin_card_edit" /\ last[p].ret = "True"
        /\ HasCard(StoreRows, last[p].id)
    /\ \A s \in PageSlugs : HasPage(StoreRows, s)

\* C2: an upsert writes what it computed from its own load_all: when another
\* writer's write_all was committed after that load_all, the card that writer
\* added is gone from the file once this upsert has written, and every upsert
\* that wrote returned True.
C2_LostUpdate ==
    /\ \A p \in Procs :
        (pc[p] = "write_unlock" /\ req[p].op \in CardUpsertOps) =>
            \A b \in CardIds \ {req[p].id} :
                (HasCard(committed, b) /\ ~HasCard(rows[p], b)) => ~HasCard(StoreRows, b)
    /\ \A p \in Procs : last[p].arg # NoRec => last[p].ret = "True"

\* worker q's upsert_card(b) returned True, its card was in the committed file,
\* and worker p's upsert_card(a), which loaded before that, has just rewritten
\* the file without it
C2_Witness ==
    \E p, q \in Procs :
        /\ p # q
        /\ pc[p] = "write_unlock" /\ req[p].op = "admin_cards"
        /\ last[q].op = "admin_cards" /\ last[q].ret = "True" /\ last[q].id # req[p].id
        /\ HasCard(committed, last[q].id)
        /\ ~HasCard(StoreRows, last[q].id)
        /\ HasCard(StoreRows, req[p].id)

\* C4: no two workers are at once inside the read section of load_all or the
\* rewrite section of write_all, and what load_all has read is the complete
\* row list of the last finished write_all (the empty list before the first).
C4_Serialized ==
    /\ \A p, q \in Procs : p # q => ~(InStore(p) /\ InStore(q))
    /\ \A p \in Procs : pc[p] = "load_unlock" => rows[p] = committed

\* a worker has read the seeded store under the lock while the other waits to
\* rewrite it
C4_Witness ==
    \E p, q \in Procs :
        /\ pc[p] = "load_unlock" /\ Len(rows[p]) >= Len(PAGES)
        /\ pc[q] = "write_acquire"

\* C7: once a worker has finished ensure_pages_exist, the store (as load_all
\* can read it, that is outside the instant between the truncation and the
\* rewrite that write_all does under the lock) holds a page record for each of
\* the three fixed slugs.
C7_PagesKept ==
    ((\E p \in Procs : Booted(p)) /\ (\A q \in Procs : pc[q] # "write_dump"))
        => \A s \in PageSlugs : HasPage(StoreRows, s)

\* a card was created and deleted after the seeding, and the pages are there
C7_Witness ==
    /\ \E p \in Procs : last[p].op = "admin_delete_card" /\ last[p].ret = "True"
    /\ \A s \in PageSlugs : HasPage(StoreRows, s)
    /\ \A q \in Procs : pc[q] = "idle"

-----------------------------------------------------------------------------
(* Two admin sessions editing the fixed pages *)

PageRequests(p) ==
    \/ \E slug \in {"telegram", "course"} : AdminPageEdit(p, slug, FormB, <<NamePng>>)
    \/ AdminDeleteFile(p, "a1b2c3d4e5", "telegram", NamePng)
    \/ \E slug \in {"telegram", "course"} : PageView(p, slug)

NextPages ==
    \E p \in Procs :
        \/ Boot(p)
        \/ StoreStep(p)
        \/ Makedirs(p)
        \/ UniqueCheck(p)
        \/ Save(p)
        \/ RemoveFile(p)
        \/ nreq < MaxReqs /\ PageRequests(p)

SpecPages == Init /\ [][NextPages]_vars

\* C10: no save writes over a file that is already in the folder, so two
\* uploads of the same name to the same folder end under two distinct names.
C10_NoOverwrite ==
    [][\A p \in Procs :
          (pc[p] = "save" /\ pc'[p] # "save" /\ FolderOf(Local(p)) \in disk.dirs)
              => <<FolderOf(Local(p)), cand[p].name>> \notin disk.files]_vars

-----------------------------------------------------------------------------
(* Waiting for the lock: the polls of an acquire that finds the lock taken *)

NextLock ==
    \E p \in Procs :
        \/ Boot(p)
        \/ StoreStep(p)
        \/ PollFail(p)
        \/ nreq < MaxReqs /\ CallLoadAll(p)

SpecLock == Init /\ [][NextLock]_vars

\* C3: an acquire that finds the lock taken gives up with a timeout after a
\* bounded wait: no call is still waiting after more than WaitLimit failed polls.
C3_BoundedWait == \A p \in Procs : polls[p] <= WaitLimit

-----------------------------------------------------------------------------
(* One worker serving one request after the other *)

\* requests the single worker may start
MaxSeqReqs == 3

SeqProcs == {"w1"}

SeqRequests(p) ==
    \/ \E id \in CardIds, form \in {FormA, FormNoTitle},
          files \in {<<>>, <<NamePng>>, <<NameExe, NamePng>>} :
            AdminCards(p, id, form, files)
    \/ \E id \in CardIds, files \in {<<>>, <<NamePng>>} : AdminCardEdit(p, id, FormB, files)
    \/ \E form \in {FormB, FormNoTitle} : AdminPageEdit(p, "course", form, <<NamePng>>)
    \/ \E id \in CardIds : AdminDeleteCard(p, id)
    \/ \E id \in CardIds : AdminDeleteCardFile(p, id, NamePng)
    \/ AdminDeleteFile(p, "c3d4e5f607", "course", NamePng)
    \/ \E id \in CardIds : CardView(p, id)
    \/ PageView(p, "course")

NextSeq ==
    \E p \in SeqProcs :
        \/ Boot(p)
        \/ StoreStep(p)
        \/ DiskStep(p)
        \/ nreq < MaxSeqReqs /\ SeqRequests(p)

SpecSeq == Init /\ [][NextSeq]_vars

\* the record with every files[*].url set to uploads/<id>/<name>
WithUrls(r) ==
    [r EXCEPT !.files = [i \in DOMAIN r.files |->
                            [r.files[i] EXCEPT !.url = url_for(r.id, r.files[i].name)]]]

\* C5: a get_card(id) (get_page(slug)) that follows an upsert_card(id, rec)
\* (upsert_page(slug, rec)) with no write in between returns rec, field by
\* field, with each files[*].url being uploads/<id>/<name>.
C5_RoundTrip ==
    [][\A p \in SeqProcs :
          (pc[p] # "idle" /\ pc'[p] = "idle" /\ last[p].arg # NoRec) =>
              /\ (req[p].op = "card_view" /\ last[p].arg.kind = "card"
                  /\ req[p].id = last[p].id)
                     => last'[p].out = WithUrls(last[p].arg)
              /\ (req[p].op = "page_view" /\ last[p].arg.kind = "page"
                  /\ req[p].slug = last[p].slug)
                     => last'[p].out = WithUrls(last[p].arg)]_vars

\* a card created with an upload was read back by the next request
C5_Witness ==
    \E p \in SeqProcs :
        /\ nreq = 2
        /\ last[p].op = "card_view" /\ last[p].ret = "200"
        /\ Len(last[p].out.files) = 1
        /\ last[p].out.files[1].name = NamePng

-----------------------------------------------------------------------------
(* load_all applied to a store file of any content *)

SeqsUpTo(S, n) == UNION {[1..k -> S] : k \in 0..n}

\* lines a store file may hold: two records (one with whitespace around it),
\* an empty line, a whitespace-only line, text that is no JSON, bytes that are
\* no UTF-8
LinePool ==
    { json_dumps(SeedPage(PAGES[1], 0)),
      [json_dumps(NewCard("c0ffee0001", FormA, 0)) EXCEPT !.pad = TRUE],
      BlankLine(FALSE), BlankLine(TRUE), JunkLine(FALSE), BadBytes }

InitLoad ==
    /\ store \in {[exists |-> FALSE, lines |-> <<>>]}
                 \cup {[exists |-> TRUE, lines |-> ls] : ls \in SeqsUpTo(LinePool, MaxLines)}
    /\ lock = Free
    /\ disk = [dirs |-> {}, files |-> {}]
    /\ pc = [p \in Procs |-> "idle"]
    /\ req = [p \in Procs |-> NoReq]
    /\ rows = [p \in Procs |-> <<>>]
    /\ rec = [p \in Procs |-> NoRec]
    /\ todo = [p \in Procs |-> <<>>]
    /\ cand = [p \in Procs |-> NoCand]
    /\ last = [p \in Procs |-> NoLast]
    /\ flashes = [p \in Procs |-> 0]
    /\ nreq = 0
    /\ now = 0
    /\ polls = [p \in Procs |-> 0]
    /\ committed = <<>>
    /\ pin = NoCand
    /\ pout = NoCand

NextLoad ==
    \E p \in SeqProcs :
        \/ LoadExists(p)
        \/ LoadAcquire(p)
        \/ LoadRead(p)
        \/ LoadUnlock(p)
        \/ LoadRaise(p)
        \/ nreq < MaxReqs /\ CallLoadAll(p)

SpecLoad == InitLoad /\ [][NextLoad]_vars

\* the values of the lines that are JSON documents, in file order
ParsesAsJson(line) == line.k = "json"
JsonValues(lines) ==
    LET ok == SelectSeq(lines, ParsesAsJson) IN [i \in DOMAIN ok |-> ok[i].v]

\* C8: load_all never aborts: whatever the file holds it returns the records of
\* the lines that parse as JSON, in file order, and the empty list when there
\* is no file.
C8_LoadTolerant ==
    \A p \in SeqProcs :
        last[p].op = "load_all" =>
            /\ last[p].ret = "rows"
            /\ last[p].rows = IF store.exists THEN JsonValues(store.lines) ELSE <<>>

\* the same, for the files every line of which decodes as UTF-8
LoadTolerantDecodable ==
    \A p \in SeqProcs :
        (last[p].op = "load_all" /\ ~ReadRaises(store.lines)) =>
            /\ last[p].ret = "rows"
            /\ last[p].rows = IF store.exists THEN JsonValues(store.lines) ELSE <<>>

-----------------------------------------------------------------------------
(* unique_filename applied to a folder and a name *)

NameA == <<"a">>
NameADot == <<"a", ".">>
NameAP == <<"a", ".", "p">>
NameABP == <<"a", ".", "b", ".", "p">>
NamePool == {NameA, NameADot, NameAP, NameABP}

\* base_k.ext, base and ext split at the last ".", or name_k without a "."
SuffixedName(name, k) ==
    LET d == LastDot(name) IN
    IF d = 0 THEN name \o <<"_">> \o Decimal(k)
    ELSE SubSeq(name, 1, d - 1) \o <<"_">> \o Decimal(k) \o <<".">>
         \o SubSeq(name, d + 1, Len(name))

FolderPool ==
    NamePool \cup {Candidate(n, k) : n \in NamePool, k \in 2..3}
             \cup {SuffixedName(n, k) : n \in NamePool, k \in 2..3}

InitUnique ==
    /\ pin \in [folder : {S \in SUBSET FolderPool : Cardinality(S) <= MaxFolder},
                filename : NamePool, done : {FALSE}]
    /\ pout = NoCand
    /\ store = [exists |-> FALSE, lines |-> <<>>]
    /\ lock = Free
    /\ disk = [dirs |-> {}, files |-> {}]
    /\ pc = [p \in Procs |-> "idle"]
    /\ req = [p \in Procs |-> NoReq]
    /\ rows = [p \in Procs |-> <<>>]
    /\ rec = [p \in Procs |-> NoRec]
    /\ todo = [p \in Procs |-> <<>>]
    /\ cand = [p \in Procs |-> NoCand]
    /\ last = [p \in Procs |-> NoLast]
    /\ flashes = [p \in Procs |-> 0]
    /\ nreq = 0
    /\ now = 0
    /\ polls = [p \in Procs |-> 0]
    /\ committed = <<>>

\* one call unique_filename(folder, filename)
CallUnique ==
    /\ ~pin.done
    /\ pin' = [pin EXCEPT !.done = TRUE]
    /\ pout' = [NoCand EXCEPT !.name = unique_filename(pin.folder, pin.filename)]
    /\ UNCHANGED <<store, lock, disk, pc, req, rows, rec, todo, cand, last, flashes,
                   nreq, now, polls, committed>>

SpecUnique == InitUnique /\ [][CallUnique]_vars

\* the name the claim gives: name when it is free, else the first free
\* SuffixedName(name, k), k = 2, 3, ...
ExpectedUnique(folder, name) ==
    IF name \notin folder THEN name
    ELSE SuffixedName(name,
            CHOOSE k \in 2..(Cardinality(folder) + 2) :
                /\ SuffixedName(name, k) \notin folder
                /\ \A j \in 2..(k - 1) : SuffixedName(name, j) \in folder)

SuffixedNameExt(name, k) ==
    LET d == LastDot(name) IN
    IF d = 0 THEN name \o <<"_">> \o Decimal(k)
    ELSE IF d = Len(name) THEN SubSeq(name, 1, d - 1) \o <<"_">> \o Decimal(k)
    ELSE SuffixedName(name, k)

ExpectedUniqueExt(folder, name) ==
    IF name \notin folder THEN name
    ELSE SuffixedNameExt(name,
            CHOOSE k \in 2..(Cardinality(folder) + 2) :
                /\ SuffixedNameExt(name, k) \notin folder
                /\ \A j \in 2..(k - 1) : SuffixedNameExt(name, j) \in folder)

UniqueNameFree ==
    pin.done =>
        /\ pout.name \notin pin.folder
        /\ \/ pout.name = pin.filename
           \/ \E k \in 2..(Cardinality(pin.folder) + 2) :
                /\ pout.name = Candidate(pin.filename, k)
                /\ \A j \in 2..(k - 1) : Candidate(pin.filename, j) \in pin.folder

-----------------------------------------------------------------------------
(* One admin session uploading batches of files *)

\* requests of the uploading session
MaxUploadReqs == 3

NameDots == <<".", ".">>
NoName == <<>>

\* batches of incoming files: none, one, a rejected file first, a rejected file
\* between two of the same name, a name that sanitizes to nothing, no name
Batches ==
    { <<>>, <<NamePng>>, <<NameExe, NamePng>>, <<NamePng, NameExe, NamePng>>,
      <<NameDots, NamePng>>, <<NoName, NameExe>> }

UploadCard == "c0ffee0001"

UploadRequests(p) ==
    \/ AdminCards(p, UploadCard, FormA, <<NamePng>>)
    \/ \E files \in Batches : AdminCardEdit(p, UploadCard, FormB, files)
    \/ \E files \in Batches : AdminPageEdit(p, "course", FormB, files)
    \/ AdminDeleteCardFile(p, UploadCard, NamePng)

NextUpload ==
    \E p \in SeqProcs :
        \/ Boot(p)
        \/ StoreStep(p)
        \/ Makedirs(p)
        \/ UniqueCheck(p)
        \/ Save(p)
        \/ RemoveFile(p)
        \/ nreq < MaxUploadReqs /\ UploadRequests(p)

SpecUpload == Init /\ [][NextUpload]_vars

\* the name has a "." and the part after the last one, lower-cased, is listed
AllowListed(name) ==
    /\ LastDot(name) > 0
    /\ Lower(SubSeq(name, LastDot(name) + 1, Len(name))) \in ALLOWED_EXTENSIONS

Accepted(files) ==
    LET Ok(f) == secure_filename(f) # <<>> /\ AllowListed(secure_filename(f))
    IN  SelectSeq(files, Ok)

Rejected(files) ==
    LET Bad(f) == secure_filename(f) # <<>> /\ ~AllowListed(secure_filename(f))
    IN  SelectSeq(files, Bad)

\* the record of the entity a request edits, in a list of rows
EntityIn(rws, r) ==
    IF r.op = "admin_page_edit" THEN get_page(rws, r.slug) ELSE get_card(rws, r.id)

\* name is the sanitized incoming name or one of its numbered candidates
NamedAfter(name, incoming) ==
    \/ name = secure_filename(incoming)
    \/ \E k \in 2..(MaxUploadReqs * 3 + 1) : name = Candidate(secure_filename(incoming), k)

\* C11: when a page or card edit ends, the entity's stored files are its
\* previous files followed by one entry per incoming file with a non-empty
\* sanitized name and an allow-listed extension, in batch order, each saved in
\* the entity's folder; a file with another extension is not on disk, not in
\* files, gives one rejection notice and does not stop the files after it.
C11_PartialBatch ==
    [][\A p \in SeqProcs :
          (pc[p] = "write_unlock" /\ pc'[p] = "idle"
           /\ req[p].op \in {"admin_card_edit", "admin_page_edit"}) =>
              LET old == EntityIn(committed, req[p])
                  new == EntityIn(committed', req[p])
                  acc == Accepted(req[p].files)
                  n   == Len(old.files)
              IN  /\ Len(new.files) = n + Len(acc)
                  /\ SubSeq(new.files, 1, n) = old.files
                  /\ \A i \in DOMAIN acc :
                        /\ NamedAfter(new.files[n + i].name, acc[i])
                        /\ new.files[n + i] = FileEntry(new.id, new.files[n + i].name)
                        /\ <<new.id, new.files[n + i].name>> \in disk'.files
                  /\ last'[p].flashes = Len(Rejected(req[p].files))
                  /\ \A f \in disk'.files : AllowListed(f[2])]_vars

\* a batch of three with a rejected file in the middle added two entries to a
\* card that had one, with one rejection notice
C11_Witness ==
    \E p \in SeqProcs :
        /\ pc[p] = "idle"
        /\ last[p].op = "admin_card_edit" /\ last[p].ret = "True"
        /\ last[p].flashes = 1
        /\ Len(last[p].arg.files) = 3
        /\ last[p].arg.files[3].name = <<"a", "_", "3", ".", "P", "N", "G">>

-----------------------------------------------------------------------------
(* One admin session deleting attached files, os.remove failing or not *)

DeleteRequests(p) ==
    \/ AdminCards(p, UploadCard, FormA, <<NamePng, NamePng>>)
    \/ AdminPageEdit(p, "course", FormB, <<NamePng>>)
    \/ \E id \in CardIds, name \in {NamePng, NameExe, NameDots} :
          AdminDeleteCardFile(p, id, name)
    \/ \E name \in {NamePng, NameExe} : AdminDeleteFile(p, PAGES[3].id, "course", name)

NextDelete ==
    \E p \in SeqProcs :
        \/ Boot(p)
        \/ StoreStep(p)
        \/ Makedirs(p)
        \/ UniqueCheck(p)
        \/ Save(p)
        \/ RemoveFile(p)
        \/ RemoveFileFails(p)
        \/ nreq < MaxUploadReqs /\ DeleteRequests(p)

SpecDelete == Init /\ [][NextDelete]_vars

DeleteFileOps == {"admin_delete_card_file", "admin_delete_file"}

\* the entity a delete-file request names, in a list of rows
DeleteEntityIn(rws, r) ==
    IF r.op = "admin_delete_file" THEN get_page(rws, r.slug) ELSE get_card(rws, r.id)

NamesOf(files) == {files[i].name : i \in DOMAIN files}

WithoutName(files, name) ==
    LET Other(f) == f.name # name IN SelectSeq(files, Other)

\* C12: a delete_file_from_card / delete_file_from_page call returns False
\* exactly when the sanitized name is not in the entity's files (or there is no
\* such entity), and then no step of it changed the store or the uploads; when
\* the name is in the list the call returns True and the stored list is the old
\* one without the entries of that name, also when os.remove failed and left
\* the file on disk.
C12_DeleteFile ==
    [][\A p \in SeqProcs :
          LET r == req[p]
              safe_name == secure_filename(r.filename)
              old == DeleteEntityIn(committed, r)
              new == DeleteEntityIn(committed', r)
              present == old # NoRec /\ safe_name \in NamesOf(old.files)
          IN  /\ (r.op \in DeleteFileOps /\ r.ph = "get" /\ pc[p] # "remove_file")
                    => (store' = store /\ disk' = disk)
              /\ (r.op \in DeleteFileOps /\ pc'[p] = "idle")
                    => /\ last'[p].ret = (IF present THEN "True" ELSE "False")
                       /\ present =>
                            /\ new.files = WithoutName(old.files, safe_name)
                            /\ [new EXCEPT !.files = <<>>, !.updated_at = 0]
                                 = [old EXCEPT !.files = <<>>, !.updated_at = 0]
                       /\ ~present => (r.ph = "get" /\ pc[p] # "remove_file")
              /\ (r.op \in DeleteFileOps /\ pc[p] = "remove_file"
                  /\ <<r.id, safe_name>> \in disk.files
                  /\ <<r.id, safe_name>> \in disk'.files)
                    => (pc'[p] = "load_exists" /\ rec'[p].files
                            = WithoutName(rec[p].files, safe_name))
              /\ (pc[p] = "idle" /\ pc'[p] = "idle" /\ last'[p].op \in DeleteFileOps)
                    => (last'[p].ret = "False" /\ store' = store /\ disk' = disk)]_vars

\* a file was deleted from a card while os.remove failed: the call returned
\* True, the entry is gone from the stored list, the file is still on disk
C12_Witness ==
    \E p \in SeqProcs :
        /\ pc[p] = "idle"
        /\ last[p].op = "admin_delete_card_file" /\ last[p].ret = "True"
        /\ <<UploadCard, NamePng>> \in disk.files
        /\ get_card(StoreRows, UploadCard) # NoRec
        /\ NamePng \notin NamesOf(get_card(StoreRows, UploadCard).files)

-----------------------------------------------------------------------------
(* sanitize_hex_id applied to an id, and again to its result *)

\* the longest id drawn
MaxIdInput == 34

\* characters an id is drawn from: hex digits in both cases, letters and a
\* sign that are no hex digits
IdFill == {"0", "a", "f"}
IdOdd == {"9", "c", "A", "F", "g", "G", "Z", "-"}

\* ids of one repeated hex digit with one character, anywhere, from IdOdd
IdInputs ==
    {<<>>} \cup
    { [i \in 1..n |-> IF i = k THEN d ELSE c] :
        n \in 1..MaxIdInput, k \in 1..MaxIdInput, c \in IdFill, d \in IdOdd }

\* no worker is running: the state beside the function applied
ProgramAtRest ==
    /\ store = [exists |-> FALSE, lines |-> <<>>]
    /\ lock = Free
    /\ disk = [dirs |-> {}, files |-> {}]
    /\ pc = [p \in Procs |-> "idle"]
    /\ req = [p \in Procs |-> NoReq]
    /\ rows = [p \in Procs |-> <<>>]
    /\ rec = [p \in Procs |-> NoRec]
    /\ todo = [p \in Procs |-> <<>>]
    /\ cand = [p \in Procs |-> NoCand]
    /\ last = [p \in Procs |-> NoLast]
    /\ flashes = [p \in Procs |-> 0]
    /\ nreq = 0
    /\ now = 0
    /\ polls = [p \in Procs |-> 0]
    /\ committed = <<>>

InitSanitize ==
    /\ pin \in [value : IdInputs, done : {0}]
    /\ pout = [once |-> <<>>, twice |-> <<>>]
    /\ ProgramAtRest

\* sanitize_hex_id(value)
CallSanitize ==
    /\ pin.done = 0
    /\ pin' = [pin EXCEPT !.done = 1]
    /\ pout' = [pout EXCEPT !.once = sanitize_hex_id(pin.value)]
    /\ UNCHANGED <<store, lock, disk, pc, req, rows, rec, todo, cand, last, flashes,
                   nreq, now, polls, committed>>

\* sanitize_hex_id applied to what the first call returned
CallSanitizeAgain ==
    /\ pin.done = 1
    /\ pin' = [pin EXCEPT !.done = 2]
    /\ pout' = [pout EXCEPT !.twice = sanitize_hex_id(pout.once)]
    /\ UNCHANGED <<store, lock, disk, pc, req, rows, rec, todo, cand, last, flashes,
                   nreq, now, polls, committed>>

NextSanitize == CallSanitize \/ CallSanitizeAgain

SpecSanitize == InitSanitize /\ [][NextSanitize]_vars

UpperLetters == Range(UPPER)
HexUpper == {"A", "B", "C", "D", "E", "F"}

HasUpper(value) == \E i \in DOMAIN value : value[i] \in UpperLetters
HasNonHex(value) == \E i \in DOMAIN value : value[i] \notin (HexChars \cup HexUpper)

\* C13: sanitize_hex_id returns the empty result for every id of length 7 or
\* 33 and for every id that holds an uppercase letter or a character that is
\* no hex digit; whatever it accepts has 8 to 32 characters.
C13_IdBoundary ==
    pin.done >= 1 =>
        /\ (Len(pin.value) \in {7, 33} \/ HasUpper(pin.value) \/ HasNonHex(pin.value))
              => pout.once = <<>>
        /\ pout.once # <<>> => (Len(pin.value) >= 8 /\ Len(pin.value) <= 32)

\* C13 (amended): sanitize_hex_id returns the empty result for every id
\* shorter than 8 or longer than 32 (so for length 7 and 33) and for every id
\* holding a character that is no hex digit in either case; an id of 8 to 32
\* hex digits is accepted, uppercase A-F included, and returned in lower case.
C13_IdBoundaryFolded ==
    pin.done >= 1 =>
        IF Len(pin.value) < 8 \/ Len(pin.value) > 32 \/ HasNonHex(pin.value)
        THEN pout.once = <<>>
        ELSE /\ Len(pout.once) = Len(pin.value)
             /\ \A i \in DOMAIN pin.value :
                   pout.once[i] = LowerChar(pin.value[i])

\* an id of 8 characters with an uppercase hex digit was accepted
C13_Witness ==
    /\ pin.done >= 1
    /\ Len(pin.value) = 8
    /\ HasUpper(pin.value)
    /\ pout.once # <<>>

\* C15: sanitize_hex_id(sanitize_hex_id(x)) = sanitize_hex_id(x) for every x,
\* accepted or rejected.
C15_Idempotent == pin.done = 2 => pout.twice = pout.once

\* an id in upper case was accepted, changed by the first application and left
\* alone by the second
C15_Witness ==
    /\ pin.done = 2
    /\ pout.once # <<>>
    /\ pout.once # pin.value
    /\ pout.twice = pout.once

-----------------------------------------------------------------------------
(* One admin session under a running clock *)

\* seconds the clock may advance
MaxTime == 2
\* requests of the session
MaxClockReqs == 3

\* utc_now moves on by a second (microseconds are cut off, line 37)
Tick ==
    /\ now < MaxTime
    /\ now' = now + 1
    /\ UNCHANGED <<store, lock, disk, pc, req, rows, rec, todo, cand, last, flashes,
                   nreq, polls, committed, pin, pout>>

\* new_id draws an id no stored card has
ClockRequests(p) ==
    \/ \E id \in CardIds : ~HasCard(committed, id) /\ AdminCards(p, id, FormA, <<>>)
    \/ \E id \in CardIds : AdminCardEdit(p, id, FormB, <<NamePng>>)
    \/ AdminPageEdit(p, "course", FormB, <<NamePng>>)
    \/ AdminDeleteCardFile(p, UploadCard, NamePng)
    \/ AdminDeleteFile(p, PAGES[3].id, "course", NamePng)

NextClock ==
    \/ Tick
    \/ \E p \in SeqProcs :
        \/ Boot(p)
        \/ StoreStep(p)
        \/ Makedirs(p)
        \/ UniqueCheck(p)
        \/ Save(p)
        \/ RemoveFile(p)
        \/ nreq < MaxClockReqs /\ ClockRequests(p)

SpecClock == Init /\ [][NextClock]_vars

\* two records are the same page (by slug) or the same card (by id)
SameRecord(a, b) ==
    /\ a.kind = b.kind
    /\ IF a.kind = "page" THEN a.slug = b.slug ELSE a.id = b.id

\* C14: a record's created_at never changes once the record is in the store;
\* a handler that stamps a record (create, edit, file delete) gives it the
\* clock's value at that moment, and when an operation changes a stored record
\* the record written carries that stamp, which is not earlier than the
\* updated_at it replaces.
C14_Timestamps ==
    [][/\ \A i \in DOMAIN committed, j \in DOMAIN committed' :
             SameRecord(committed[i], committed'[j]) =>
                /\ committed'[j].created_at = committed[i].created_at
                /\ committed'[j].updated_at >= committed[i].updated_at
                /\ committed'[j] # committed[i] =>
                      \E p \in SeqProcs :
                          /\ pc[p] = "write_unlock"
                          /\ committed'[j] = rec[p]
       /\ \A p \in SeqProcs :
             (pc'[p] # pc[p] /\ (pc'[p] = "makedirs" \/ pc[p] = "remove_file"))
                => rec'[p].updated_at = now]_vars

\* a card created at time 0 was edited at time 2: created_at 0, updated_at 2
C14_Witness ==
    \E i \in DOMAIN committed :
        /\ committed[i].kind = "card"
        /\ committed[i].title = "B"
        /\ committed[i].created_at = 0
        /\ committed[i].updated_at = 2

-----------------------------------------------------------------------------
(* The card listings, one session creating and editing cards under the clock *)

\* requests of the session
MaxListReqs == 4

\* the ids new_id draws, in the order it draws them
ListIds == <<"c0ffee0001", "c0ffee0002", "c0ffee0003">>

\* cards created so far
Created == Cardinality({i \in DOMAIN ListIds : HasCard(committed, ListIds[i])})

ListRequests(p) ==
    \/ \E form \in {FormA, FormB} :
          Created < Len(ListIds) /\ AdminCards(p, ListIds[Created + 1], form, <<>>)
    \/ \E i \in DOMAIN ListIds : AdminCardEdit(p, ListIds[i], FormB, <<>>)
    \/ CardsList(p)
    \/ AdminCardsGet(p)
    \/ Index(p)

NextList ==
    \/ Tick
    \/ \E p \in SeqProcs :
        \/ Boot(p)
        \/ StoreStep(p)
        \/ Makedirs(p)
        \/ nreq < MaxListReqs /\ ListRequests(p)

SpecList == Init /\ [][NextList]_vars

\* where the card id stands in the store file (0: nowhere)
StorePos(id) ==
    LET at == {i \in DOMAIN StoreRows : IsCard(StoreRows[i], id)}
    IN  IF at = {} THEN 0 ELSE CHOOSE i \in at : TRUE

StoredCardIds == {StoreRows[i].id : i \in {j \in DOMAIN StoreRows : StoreRows[j].kind = "card"}}

\* the listing is ordered by updated_at, latest first, equal ones as in the file
OrderedListing(l) ==
    \A j, k \in DOMAIN l :
        j < k =>
            /\ l[j].updated_at >= l[k].updated_at
            /\ l[j].updated_at = l[k].updated_at => StorePos(l[j].id) < StorePos(l[k].id)

\* every stored card is in the listing once, and nothing else is
EachCardOnce(l) ==
    /\ Len(l) = Cardinality(StoredCardIds)
    /\ \A id \in StoredCardIds : \E j \in DOMAIN l : l[j].id = id

ListingOps == {"cards_list", "admin_cards_get"}

\* C16: cards_list and GET /admin/cards show every stored card once, by
\* updated_at descending, cards of equal updated_at in the order of the store
\* file; index shows every stored card once, in one section, and each section
\* in that order.
C16_Listings ==
    \A p \in SeqProcs :
        /\ (pc[p] = "idle" /\ last[p].op \in ListingOps) =>
              /\ EachCardOnce(last[p].rows)
              /\ OrderedListing(last[p].rows)
        /\ (pc[p] = "idle" /\ last[p].op = "index") =>
              /\ EachCardOnce(last[p].out["telegram"].cards
                              \o last[p].out["analytics"].cards
                              \o last[p].out["course"].cards)
              /\ \A s \in PageSlugs : OrderedListing(last[p].out[s].cards)

\* three cards were listed, the one written last in the file first, and two of
\* equal updated_at behind it in file order
C16_Witness ==
    \E p \in SeqProcs :
        /\ pc[p] = "idle" /\ last[p].op = "cards_list"
        /\ Len(last[p].rows) = 3
        /\ StorePos(last[p].rows[1].id) = Len(StoreRows)
        /\ last[p].rows[2].updated_at = last[p].rows[3].updated_at
        /\ last[p].rows[1].updated_at > last[p].rows[2].updated_at

-----------------------------------------------------------------------------
(* upsert_page and upsert_card applied to a store file of any content *)

\* lines of the store file: two pages, two cards of one id, a card of another
\* id, text that is no JSON, an empty line
UpsertLinePool ==
    { json_dumps(SeedPage(PAGES[1], 0)),
      json_dumps(SeedPage(PAGES[3], 0)),
      json_dumps(NewCard("c0ffee0001", FormA, 0)),
      json_dumps(NewCard("c0ffee0001", FormNoTitle, 0)),
      json_dumps(NewCard("c0ffee0002", FormA, 0)),
      JunkLine(FALSE), BlankLine(FALSE) }

InitUpsert ==
    /\ store \in {[exists |-> FALSE, lines |-> <<>>]}
                 \cup {[exists |-> TRUE, lines |-> ls] : ls \in SeqsUpTo(UpsertLinePool, MaxLines)}
    /\ committed = ReadLoop(store.lines, <<>>)
    /\ lock = Free
    /\ disk = [dirs |-> {}, files |-> {}]
    /\ pc = [p \in Procs |-> "idle"]
    /\ req = [p \in Procs |-> NoReq]
    /\ rows = [p \in Procs |-> <<>>]
    /\ rec = [p \in Procs |-> NoRec]
    /\ todo = [p \in Procs |-> <<>>]
    /\ cand = [p \in Procs |-> NoCand]
    /\ last = [p \in Procs |-> NoLast]
    /\ flashes = [p \in Procs |-> 0]
    /\ nreq = 0
    /\ now = 0
    /\ polls = [p \in Procs |-> 0]
    /\ pin = NoCand
    /\ pout = NoCand

NextUpsert ==
    \E p \in SeqProcs :
        \/ StoreStep(p)
        \/ nreq < MaxReqs /\ CallUpsertCard(p, "c0ffee0001", NewCard("c0ffee0001", FormB, 1))
        \/ nreq < MaxReqs /\ CallUpsertPage(p, "course", SeedPage(PAGES[3], 1))

SpecUpsert == InitUpsert /\ [][NextUpsert]_vars

\* the record being upserted has the kind and the key of r
Matches(r, q) ==
    IF q.op = "admin_page_edit"
    THEN Get(r, "kind") = "page" /\ Get(r, "slug") = q.slug
    ELSE Get(r, "kind") = "card" /\ Get(r, "id") = q.id

\* C17: an upsert that runs alone writes the records the store held with the
\* first record of the kind and key replaced in place by rec, or with rec
\* appended when no record matched: the other records are the same, in the
\* same order.
C17_UpsertFrame ==
    [][\A p \in SeqProcs :
          /\ pc[p] = "write_open" =>
                LET before == ReadLoop(store.lines, <<>>)
                    after == rows[p]
                    hits == {i \in DOMAIN before : Matches(before[i], req[p])}
                IN  IF hits = {}
                    THEN after = Append(before, rec[p])
                    ELSE LET first == CHOOSE i \in hits : \A j \in hits : i <= j
                         IN  /\ Len(after) = Len(before)
                             /\ after[first] = rec[p]
                             /\ \A j \in DOMAIN before : j # first => after[j] = before[j]
          /\ pc[p] = "write_dump" => ReadLoop(store'.lines, <<>>) = rows[p]
          /\ pc[p] = "write_unlock" => (last'[p].ret = "True" /\ store' = store)]_vars

\* a store held two cards of one id: the upsert replaced the first and left
\* the second as it was
C17_Witness ==
    \E p \in SeqProcs :
        /\ pc[p] = "idle" /\ last[p].ret = "True"
        /\ \E i, j \in DOMAIN StoreRows :
              /\ i < j
              /\ StoreRows[i] = NewCard("c0ffee0001", FormB, 1)
              /\ StoreRows[j] = NewCard("c0ffee0001", FormA, 0)

-----------------------------------------------------------------------------
(* Two workers reading and writing a store whose reads and writes may fail *)

\* the store files the workers start from: none, one page, one page and a
\* line that is no UTF-8
ExitStores ==
    { [exists |-> FALSE, lines |-> <<>>],
      [exists |-> TRUE, lines |-> <<json_dumps(SeedPage(PAGES[1], 0))>>],
      [exists |-> TRUE, lines |-> <<json_dumps(SeedPage(PAGES[1], 0)), BadBytes>>] }

InitExit ==
    /\ store \in ExitStores
    /\ committed = <<>>
    /\ lock = Free
    /\ disk = [dirs |-> {}, files |-> {}]
    /\ pc = [p \in Procs |-> "idle"]
    /\ req = [p \in Procs |-> NoReq]
    /\ rows = [p \in Procs |-> <<>>]
    /\ rec = [p \in Procs |-> NoRec]
    /\ todo = [p \in Procs |-> <<>>]
    /\ cand = [p \in Procs |-> NoCand]
    /\ last = [p \in Procs |-> NoLast]
    /\ flashes = [p \in Procs |-> 0]
    /\ nreq = 0
    /\ now = 0
    /\ polls = [p \in Procs |-> 0]
    /\ pin = NoCand
    /\ pout = NoCand

NextExit ==
    \E p \in Procs :
        \/ StoreStep(p)
        \/ LoadRaise(p)
        \/ WriteFail(p)
        \/ WriteRaise(p)
        \/ PollFail(p)
        \/ nreq < MaxReqs /\ CallLoadAll(p)
        \/ nreq < MaxReqs /\ \E id \in CardIds : CallUpsertCard(p, id, NewCard(id, FormA, 0))

SpecExit == InitExit /\ [][NextExit]_vars

\* between taking the lock and leaving the `with lock` block of load_all or
\* write_all
InsideLocked(p) ==
    pc[p] \in {"load_read", "load_unlock", "load_raise",
               "write_open", "write_dump", "write_unlock", "write_raise"}

\* C18: a process holds the store lock only inside the locked section of a
\* load_all or write_all call; when the call has ended, by a return or by an
\* exception raised while the file was read or written, the process does not
\* hold it, so the lock is free for the next call.
C18_LockReleased ==
    /\ \A p \in Procs : lock = p => InsideLocked(p)
    /\ (\A p \in Procs : ~InsideLocked(p)) => lock = Free

\* a call ended by an exception, and the other worker has taken the lock since
C18_Witness ==
    \E p, q \in Procs :
        /\ p # q
        /\ pc[p] = "idle"
        /\ last[p].ret \in {"UnicodeDecodeError", "OSError"}
        /\ lock = q
        /\ polls[q] = 0 /\ pc[q] = "write_open"

-----------------------------------------------------------------------------
(* One admin session uploading to and deleting from a page and a card *)

\* the id in the URL of POST /admin/delete-file/<item_id>: the page's own id,
\* or the id of a card
DeleteFileIds == {PAGES[1].id, UploadCard}

FilesRequests(p) ==
    \/ ~HasCard(committed, UploadCard) /\ AdminCards(p, UploadCard, FormA, <<NamePng>>)
    \/ AdminCardEdit(p, UploadCard, FormB, <<NamePng>>)
    \/ AdminPageEdit(p, "telegram", FormB, <<NamePng>>)
    \/ \E item_id \in DeleteFileIds : AdminDeleteFile(p, item_id, "telegram", NamePng)
    \/ AdminDeleteCardFile(p, UploadCard, NamePng)
    \/ AdminDeleteCard(p, UploadCard)

NextFiles ==
    \E p \in SeqProcs :
        \/ Boot(p)
        \/ StoreStep(p)
        \/ DiskStep(p)
        \/ nreq < MaxUploadReqs /\ FilesRequests(p)

SpecFiles == Init /\ [][NextFiles]_vars

\* C19: when no request is in progress, every entry of a stored record's
\* files names a file present in the record's own folder uploads/<id>/.
C19_FilesOnDisk ==
    (\A p \in SeqProcs : pc[p] = "idle") =>
        \A i \in DOMAIN StoreRows :
            \A k \in DOMAIN FilesOf(StoreRows[i]) :
                <<StoreRows[i].id, StoreRows[i].files[k].name>> \in disk.files

-----------------------------------------------------------------------------
(* Two admin sessions: one card created once, then edited and deleted *)

\* requests of the two sessions
MaxGoneReqs == 3

\* no delete_card has been started: the card is created at most before one
NoDeleteYet ==
    \A q \in Procs : req[q].op # "admin_delete_card" /\ last[q].op # "admin_delete_card"

GoneRequests(p) ==
    \/ /\ NoDeleteYet
       /\ ~HasCard(committed, UploadCard)
       /\ \A q \in Procs : req[q].op # "admin_cards"
       /\ AdminCards(p, UploadCard, FormA, <<NamePng>>)
    \/ AdminCardEdit(p, UploadCard, FormB, <<NamePng>>)
    \/ AdminDeleteCardFile(p, UploadCard, NamePng)
    \/ AdminDeleteCard(p, UploadCard)

NextGone ==
    \E p \in Procs :
        \/ Boot(p)
        \/ StoreStep(p)
        \/ DiskStep(p)
        \/ nreq < MaxGoneReqs /\ GoneRequests(p)

SpecGone == Init /\ [][NextGone]_vars

\* C20: after delete_card(id) returned True (and with no card of that id
\* created since), the store holds no card id and uploads/<id>/ does not
\* exist, whatever requests were in progress or started later.
C20_StaysDeleted ==
    \A q \in Procs :
        (pc[q] = "idle" /\ last[q].op = "admin_delete_card" /\ last[q].ret = "True") =>
            /\ \A p \in Procs : pc[p] \notin {"write_open", "write_dump"}
                  => ~HasCard(StoreRows, last[q].id)
            /\ last[q].id \notin disk.dirs

\* the same for the record alone
StaysDeletedRecord ==
    \A q \in Procs :
        (pc[q] = "idle" /\ last[q].op = "admin_delete_card" /\ last[q].ret = "True") =>
            \A p \in Procs : pc[p] \notin {"write_open", "write_dump"}
                  => ~HasCard(StoreRows, last[q].id)

-----------------------------------------------------------------------------
(* File deletion on a page, the id of the URL being any valid id *)

\* the id of the stored page with that slug
PageIdOf(slug) ==
    LET page == get_page(committed, slug) IN IF page = NoRec THEN None ELSE page.id

\* C21: a delete_file_from_page(slug, item_id, filename) called by
\* admin_delete_file removes a file from disk only in uploads/<id of the page
\* with that slug>/: no file of another page or of a card goes away.
C21_OwnFolder ==
    [][\A p \in SeqProcs :
          req[p].op = "admin_delete_file" =>
              \A f \in disk.files \ disk'.files : f[1] = PageIdOf(req[p].slug)]_vars

\* the same, for the requests whose URL carries the page's own id
OwnFolderOwnId ==
    [][\A p \in SeqProcs :
          (req[p].op = "admin_delete_file" /\ req[p].id = PageIdOf(req[p].slug)) =>
              \A f \in disk.files \ disk'.files : f[1] = PageIdOf(req[p].slug)]_vars

=============================================================================
